---- MODULE Spec2Model ----
(***************************************************************************)
(* Model of build_capsule.py: the conversion of a tree of .txt/.md        *)
(* documents into a Gemini capsule.                                        *)
(*                                                                         *)
(* Text is a sequence of characters.  A character is a one-character       *)
(* string; a few literal strings that the code only ever treats as a whole *)
(* are single elements: FENCE (the three backticks of a fence marker, which  *)
(* a TLA+ string cannot hold), "http://", "https://",                      *)
(* the attribution line of the footer, the glyphs and fixed words of the   *)
(* generated link lines, and collection and section keys.                  *)
(***************************************************************************)
EXTENDS Integers, Sequences, FiniteSets, TLC

\* ------------------------------------------------------------------ bounds

\* Longest document of the text specification, in lines.
MaxLines == 3

\* ------------------------------------------------------- string primitives

NL == "\n"

\* The fence marker: three backticks.
FENCE == "~~~"

\* str.strip() / rstrip() strip whitespace; the model's alphabet has these two.
IsSpace(c) == c \in {" ", NL}

\* s[i:] of Python, 1-based: the elements from i to the end.
From(s, i) == SubSeq(s, i, Len(s))

rstrip(s) ==
  LET keep == {i \in 1..Len(s) : ~IsSpace(s[i])}
  IN IF keep = {} THEN <<>>
     ELSE SubSeq(s, 1, CHOOSE i \in keep : \A j \in keep : j <= i)

lstrip(s) ==
  LET keep == {i \in 1..Len(s) : ~IsSpace(s[i])}
  IN IF keep = {} THEN <<>>
     ELSE From(s, CHOOSE i \in keep : \A j \in keep : i <= j)

strip(s) == lstrip(rstrip(s))

startswith(s, p) == Len(s) >= Len(p) /\ SubSeq(s, 1, Len(p)) = p

\* p in s
contains(s, p) ==
  \E i \in 1..(Len(s) - Len(p) + 1) : SubSeq(s, i, i + Len(p) - 1) = p

RECURSIVE split(_)
\* content.split('\n')
split(s) ==
  LET nl == {i \in 1..Len(s) : s[i] = NL}
  IN IF nl = {} THEN <<s>>
     ELSE LET i == CHOOSE k \in nl : \A j \in nl : k <= j
          IN <<SubSeq(s, 1, i - 1)>> \o split(From(s, i + 1))

RECURSIVE join(_)
\* '\n'.join(lines)
join(lines) ==
  IF Len(lines) = 0 THEN <<>>
  ELSE IF Len(lines) = 1 THEN lines[1]
  ELSE lines[1] \o <<NL>> \o join(Tail(lines))

RECURSIVE flatten(_)
\* ''.join(parts)
flatten(parts) ==
  IF Len(parts) = 0 THEN <<>> ELSE parts[1] \o flatten(Tail(parts))

\* The least element of a non-empty set of positions, 0 for the empty set.
First(S) == IF S = {} THEN 0 ELSE CHOOSE i \in S : \A j \in S : i <= j

\* ------------------------------------------------------ regular expressions

\* The end of the match of \[([^\]]+)\]\(([^)]+)\) that starts at i, 0 if none.
\* Neither class admits its own terminator, so the match is determined by the
\* first ']' after i and the first ')' after the '('.
LinkEnd(s, i) ==
  IF ~(i <= Len(s) /\ s[i] = "[") THEN 0
  ELSE LET j == First({x \in (i + 1)..Len(s) : s[x] = "]"})
       IN IF j = 0 \/ j = i + 1 \/ j + 1 > Len(s) THEN 0
          ELSE IF s[j + 1] # "(" THEN 0
          ELSE LET k == First({x \in (j + 2)..Len(s) : s[x] = ")"})
               IN IF k = 0 \/ k = j + 2 THEN 0 ELSE k

\* group(1) and group(2) of the match that starts at i.
LinkText(s, i) == SubSeq(s, i + 1, First({x \in (i + 1)..Len(s) : s[x] = "]"}) - 1)
LinkUrl(s, i) ==
  SubSeq(s, First({x \in (i + 1)..Len(s) : s[x] = "]"}) + 2, LinkEnd(s, i) - 1)

\* replace_link: f"=> {url} {text}"
replace_link(text, url) == <<"=", ">", " ">> \o url \o <<" ">> \o text

RECURSIVE sub_links(_, _)
\* re.sub(r'\[([^\]]+)\]\(([^)]+)\)', replace_link, line), scanning from i.
sub_links(s, i) ==
  IF i > Len(s) THEN <<>>
  ELSE IF LinkEnd(s, i) # 0
       THEN replace_link(LinkText(s, i), LinkUrl(s, i)) \o sub_links(s, LinkEnd(s, i) + 1)
       ELSE <<s[i]>> \o sub_links(s, i + 1)

\* The end of the match of \*\*(.+?)\*\*  that starts at i, 0 if none: the
\* lazy group takes the shortest non-empty text up to a closing "**".
BoldEnd(s, i) ==
  IF ~(i + 1 <= Len(s) /\ s[i] = "*" /\ s[i + 1] = "*") THEN 0
  ELSE LET j == First({x \in (i + 3)..(Len(s) - 1) : s[x] = "*" /\ s[x + 1] = "*"})
       IN IF j = 0 THEN 0 ELSE j + 1

RECURSIVE sub_bold(_, _)
\* re.sub(r'\*\*(.+?)\*\*', r'\1', line), scanning from i.
sub_bold(s, i) ==
  IF i > Len(s) THEN <<>>
  ELSE IF BoldEnd(s, i) # 0
       THEN SubSeq(s, i + 2, BoldEnd(s, i) - 2) \o sub_bold(s, BoldEnd(s, i) + 1)
       ELSE <<s[i]>> \o sub_bold(s, i + 1)

\* The end of the match of \*(.+?)\* that starts at i, 0 if none.
ListItalicEnd(s, i) ==
  IF ~(i <= Len(s) /\ s[i] = "*") THEN 0
  ELSE First({x \in (i + 2)..Len(s) : s[x] = "*"})

RECURSIVE sub_list_italic(_, _)
\* re.sub(r'\*(.+?)\*', r'\1', item), scanning from i.
sub_list_italic(s, i) ==
  IF i > Len(s) THEN <<>>
  ELSE IF ListItalicEnd(s, i) # 0
       THEN SubSeq(s, i + 1, ListItalicEnd(s, i) - 1)
              \o sub_list_italic(s, ListItalicEnd(s, i) + 1)
       ELSE <<s[i]>> \o sub_list_italic(s, i + 1)

\* The end of the match of (?<!\*)\*([^*]+?)\*(?!\*) that starts at i, 0 if none.
ItalicEnd(s, i) ==
  IF ~(i <= Len(s) /\ s[i] = "*") THEN 0
  ELSE IF i > 1 /\ s[i - 1] = "*" THEN 0
  ELSE LET j == First({x \in (i + 1)..Len(s) : s[x] = "*"})
       IN IF j = 0 \/ j = i + 1 THEN 0
          ELSE IF j + 1 <= Len(s) /\ s[j + 1] = "*" THEN 0
          ELSE j

RECURSIVE sub_italic(_, _)
\* re.sub(r'(?<!\*)\*([^*]+?)\*(?!\*)', r'\1', line), scanning from i.
sub_italic(s, i) ==
  IF i > Len(s) THEN <<>>
  ELSE IF ItalicEnd(s, i) # 0
       THEN SubSeq(s, i + 1, ItalicEnd(s, i) - 1) \o sub_italic(s, ItalicEnd(s, i) + 1)
       ELSE <<s[i]>> \o sub_italic(s, i + 1)

\* The number of leading '#' of s.
Hashes(s) ==
  LET other == {i \in 1..Len(s) : s[i] # "#"}
  IN IF other = {} THEN Len(s) ELSE First(other) - 1

\* re.match(r'^#{1,3}\s+', stripped)
md_heading(stripped) ==
  /\ Hashes(stripped) \in 1..3
  /\ Len(stripped) > Hashes(stripped)
  /\ IsSpace(stripped[Hashes(stripped) + 1])

\* re.match(r'^-\s+', stripped)
md_list(stripped) ==
  Len(stripped) >= 2 /\ stripped[1] = "-" /\ IsSpace(stripped[2])

\* re.sub(r'^-\s+', '* ', stripped): the hyphen and the whole run of whitespace.
sub_list_marker(stripped) ==
  LET rest == Tail(stripped)
  IN <<"*", " ">> \o lstrip(rest)

\* ------------------------------------------------------------- converters

\* Detect if content is Markdown or plain text: any indicator is enough.
has_markdown_links(content) == \E i \in 1..Len(content) : LinkEnd(content, i) # 0

\* re.search(r'^#{1,6}\s+', content, re.MULTILINE)
has_markdown_headings(content) ==
  \E p \in 1..Len(content) :
     /\ (p = 1 \/ content[p - 1] = NL)
     /\ Hashes(From(content, p)) \in 1..6
     /\ p + Hashes(From(content, p)) <= Len(content)
     /\ IsSpace(content[p + Hashes(From(content, p))])

\* re.search(r'\*\*[^*]+\*\*', content)
has_markdown_bold(content) ==
  \E i \in 1..Len(content) :
     /\ i + 1 <= Len(content) /\ content[i] = "*" /\ content[i + 1] = "*"
     /\ LET j == First({x \in (i + 2)..Len(content) : content[x] = "*"})
        IN j >= i + 3 /\ j + 1 <= Len(content) /\ content[j + 1] = "*"

\* re.search of the fence marker in content
has_markdown_code_blocks(content) == \E i \in 1..Len(content) : content[i] = FENCE

detect_file_format_and(content) ==
  IF /\ has_markdown_links(content) /\ has_markdown_headings(content)
     /\ has_markdown_bold(content) /\ has_markdown_code_blocks(content)
  THEN "md" ELSE "txt"

detect_file_format(content) ==
  IF \/ has_markdown_links(content) \/ has_markdown_headings(content)
     \/ has_markdown_bold(content) \/ has_markdown_code_blocks(content)
  THEN "md" ELSE "txt"

\* One line of convert_txt_to_gmi, with the URL line emitted untrimmed.
txt_line_untrimmed(line) ==
  LET stripped == strip(line)
  IN IF startswith(stripped, <<"#", " ">>) THEN stripped
     ELSE IF startswith(stripped, <<"-", " ", "http://">>)
             \/ startswith(stripped, <<"-", " ", "https://">>)
          THEN <<"=", ">", " ">> \o From(line, 3)
     ELSE IF stripped = <<>> THEN <<>>
     ELSE line

\* One line of convert_txt_to_gmi.
txt_line(line) ==
  LET stripped == strip(line)
  IN IF startswith(stripped, <<"#", " ">>) THEN stripped
     ELSE IF /\ startswith(stripped, <<"-", " ">>)
             /\ \/ startswith(stripped, <<"-", " ", "http://">>)
                \/ startswith(stripped, <<"-", " ", "https://">>)
          THEN <<"=", ">", " ">> \o strip(From(stripped, 3))
     ELSE IF stripped = <<>> THEN <<>>
     ELSE line

convert_txt_to_gmi(content) ==
  LET lines == split(content)
  IN join([i \in 1..Len(lines) |-> txt_line(lines[i])])

\* One line of convert_md_to_gmi outside a code block, with the link rule
\* tried before the heading and list rules.
md_line_links_first(line) ==
  LET stripped == strip(line)
  IN IF contains(line, <<"]", "(">>)
       THEN sub_italic(sub_bold(sub_links(line, 1), 1), 1)
     ELSE IF md_heading(stripped) THEN stripped
     ELSE IF md_list(stripped)
       THEN sub_list_italic(sub_bold(sub_list_marker(stripped), 1), 1)
     ELSE IF stripped = <<>> THEN <<>>
     ELSE IF stripped = <<"-", "-", "-">> THEN <<>>
     ELSE sub_italic(sub_bold(line, 1), 1)

\* One line of convert_md_to_gmi outside a code block, with every line of
\* three or more hyphens taken for a horizontal rule.
md_line_any_rule(line) ==
  LET stripped == strip(line)
  IN IF md_heading(stripped) THEN stripped
     ELSE IF md_list(stripped)
       THEN sub_list_italic(sub_bold(sub_list_marker(stripped), 1), 1)
     ELSE IF contains(line, <<"]", "(">>)
       THEN sub_italic(sub_bold(sub_links(line, 1), 1), 1)
     ELSE IF stripped = <<>> THEN <<>>
     ELSE IF Len(stripped) >= 3 /\ \A i \in 1..Len(stripped) : stripped[i] = "-"
       THEN <<>>
     ELSE sub_italic(sub_bold(line, 1), 1)

\* One line of convert_md_to_gmi outside a code block.
md_line(line) ==
  LET stripped == strip(line)
  IN IF md_heading(stripped) THEN stripped
     ELSE IF md_list(stripped)
       THEN sub_list_italic(sub_bold(sub_list_marker(stripped), 1), 1)
     ELSE IF contains(line, <<"]", "(">>)
       THEN sub_italic(sub_bold(sub_links(line, 1), 1), 1)
     ELSE IF stripped = <<>> THEN <<>>
     ELSE IF stripped = <<"-", "-", "-">> THEN <<>>
     ELSE sub_italic(sub_bold(line, 1), 1)

\* A line that toggles in_code_block.
is_fence(line) == startswith(strip(line), <<FENCE>>)

RECURSIVE md_lines_no_fence(_, _)
\* The loop of convert_md_to_gmi with the code-block state never set.
md_lines_no_fence(lines, in_code_block) ==
  IF Len(lines) = 0 THEN <<>>
  ELSE IF is_fence(lines[1])
       THEN <<lines[1]>> \o md_lines_no_fence(Tail(lines), FALSE)
  ELSE <<md_line(lines[1])>> \o md_lines_no_fence(Tail(lines), FALSE)

RECURSIVE md_lines(_, _)
\* The loop of convert_md_to_gmi over the remaining lines.
md_lines(lines, in_code_block) ==
  IF Len(lines) = 0 THEN <<>>
  ELSE IF is_fence(lines[1])
       THEN <<lines[1]>> \o md_lines(Tail(lines), ~in_code_block)
  ELSE IF in_code_block
       THEN <<lines[1]>> \o md_lines(Tail(lines), in_code_block)
  ELSE <<md_line(lines[1])>> \o md_lines(Tail(lines), in_code_block)

convert_md_to_gmi(content) == join(md_lines(split(content), FALSE))

\* ------------------------------------------------------------ file names

IsWordChar(c) == c \in {"a", "b", "_"}

\* name.replace(' ', '_'), then re.sub(r'[^\w\-_\.]', '', name)
sanitize_filename(name) ==
  LET under == [i \in 1..Len(name) |-> IF name[i] = " " THEN "_" ELSE name[i]]
  IN SelectSeq(under, LAMBDA c : IsWordChar(c) \/ c \in {"-", "_", "."})

\* ----------------------------------------------------------------- footer

ATTRIBUTION == "desenvolvido por pablo murad - 2024 - 2026"

get_footer == <<NL, "-", "-", "-", NL, NL, ATTRIBUTION, NL>>

\* The text write_gmi_file writes.
written(content, add_footer) ==
  IF add_footer THEN rstrip(content) \o get_footer ELSE content

\* build_collection's write of an updated page, the footer always added.
write_keep_footer_always(updated_content) == written(updated_content, TRUE)

\* build_collection's write of an updated page: keep footer if it exists,
\* otherwise add it.
write_keep_footer(updated_content) ==
  IF ~contains(updated_content, strip(get_footer))
  THEN written(updated_content, TRUE)
  ELSE written(updated_content, FALSE)

\* ------------------------------------------------------------------ state

VARIABLES
  pc,               \* the position of main, or of the single-document run
  tree,             \* the source tree, dir/files
  fs,               \* the output tree, capsule: path -> text
  pages,            \* main: the page names build_pages returned
  collections,      \* main: the collection names still to build
  collections_data, \* main: collection name -> sections_data
  navLog,           \* the navigation blocks build_collection inserted
  content,          \* single-document run: the source text
  fmt,              \* single-document run: the detected format
  gmi,              \* single-document run: the converted text
  page,             \* single-document run: the page as first written
  page2             \* single-document run: the page as written again

vars ==
  <<pc, tree, fs, pages, collections, collections_data, navLog,
    content, fmt, gmi, page, page2>>

buildVars == <<tree, fs, pages, collections, collections_data, navLog>>
textVars == <<content, fmt, gmi, page, page2>>

\* ---------------------------------------------- the single-document run

\* The lines documents of the single-document run are made of.
LineSet ==
  { <<>>,
    <<" ">>,
    <<FENCE>>,
    <<" ", "#", " ", "x">>,
    <<"#">>,
    <<"#", " ", "[", "a", "]", "(", "b", ")">>,
    <<"-", " ", "[", "a", "]", "(", "b", ")">>,
    <<"[", "[", "a", "]", "(", "b", ")", "[", "b", "]", "(", "a", ")">>,
    <<" ", "-", " ", "http://", "u", " ">>,
    <<"*", "*", "x", "*", "*">>,
    <<"-", "-", "-">>,
    <<"-", "-", "-", "-">>,
    <<ATTRIBUTION>> }

\* Every document of at most MaxLines lines of LineSet.
Documents ==
  {<<>>} \cup
  UNION { {join(ls) : ls \in [1..n -> LineSet]} : n \in 1..MaxLines }

EmptyTree == [pagesTxt |-> <<>>, stale |-> FALSE, colls |-> <<>>]

TInit ==
  /\ pc = "read"
  /\ content \in Documents
  /\ fmt = "" /\ gmi = <<>> /\ page = <<>> /\ page2 = <<>>
  /\ tree = EmptyTree /\ fs = <<>> /\ pages = <<>> /\ collections = <<>>
  /\ collections_data = <<>> /\ navLog = <<>>

\* build_collection: detect the format of a document.
TDetect ==
  /\ pc = "read"
  /\ fmt' = detect_file_format(content)
  /\ pc' = "detected"
  /\ UNCHANGED <<content, gmi, page, page2>>
  /\ UNCHANGED buildVars

\* build_collection: convert a collection document by its detected format.
TConvertDocument ==
  /\ pc = "detected"
  /\ gmi' = IF fmt = "md" THEN convert_md_to_gmi(content)
            ELSE convert_txt_to_gmi(content)
  /\ pc' = "document"
  /\ UNCHANGED <<content, fmt, page, page2>>
  /\ UNCHANGED buildVars

\* build_pages: convert a standalone page, whatever format it looks like.
TConvertPage ==
  /\ pc = "detected"
  /\ strip(content) # <<>>
  /\ gmi' = convert_txt_to_gmi(strip(content))
  /\ pc' = "page"
  /\ UNCHANGED <<content, fmt, page, page2>>
  /\ UNCHANGED buildVars

\* write_gmi_file(gmi_file, gmi_content, add_footer=True)
TWrite ==
  /\ pc \in {"document", "page"}
  /\ page' = written(gmi, TRUE)
  /\ pc' = "written"
  /\ UNCHANGED <<content, fmt, gmi, page2>>
  /\ UNCHANGED buildVars

\* The written page is written once more with add_footer=True.
TWriteAgain ==
  /\ pc = "written"
  /\ page2' = written(page, TRUE)
  /\ pc' = "written_again"
  /\ UNCHANGED <<content, fmt, gmi, page>>
  /\ UNCHANGED buildVars

\* The written page is written once more the way build_collection writes an
\* updated page: with the footer only if the text has none.
TKeepFooter ==
  /\ pc = "written"
  /\ page2' = write_keep_footer(page)
  /\ pc' = "kept"
  /\ UNCHANGED <<content, fmt, gmi, page>>
  /\ UNCHANGED buildVars

\* The converted text is written the way build_collection writes an updated
\* page, and that output is written the same way again.
TKeepTwice ==
  /\ pc = "document"
  /\ page' = write_keep_footer(gmi)
  /\ page2' = write_keep_footer(write_keep_footer(gmi))
  /\ pc' = "kept_twice"
  /\ UNCHANGED <<content, fmt, gmi>>
  /\ UNCHANGED buildVars

TNext ==
  \/ TDetect
  \/ TConvertDocument
  \/ TConvertPage
  \/ TWrite
  \/ TWriteAgain
  \/ TKeepFooter
  \/ TKeepTwice

SpecText == TInit /\ [][TNext]_vars

\* ------------------------------------------------------- the source tree

\* The most files a collection of the source tree holds, and the longest
\* section order a sections.json declares.
MaxFiles == 3
MaxOrder == 2

\* File names, collection names, section directories, and the section keys a
\* sections.json may name.
NameSet == { <<"a", " ", "b">>, <<"a", "_", "b">>, <<"b", ".", "a">> }
CollNames == {"c"}
SectionDirs == {"sa", "sb"}
OrderKeys == {"sa", "sb"}

\* Where a file of a collection lies: in the collection directory itself
\* (DIRECT) or in one of its section directories.
DIRECT == "."

\* What the file at a place holds.
read_file(loc, name) ==
  CASE loc = "sa" /\ name = <<"a", " ", "b">> -> <<"x">>
    [] loc = "sa" /\ name = <<"a", "_", "b">> -> <<"#", " ", "h", NL, "x">>
    [] loc = "sa" /\ name = <<"b", ".", "a">> ->
         <<"x", NL, "#", " ", "h", NL, "#", " ", "g">>
    [] loc = "sb" /\ name = <<"a", " ", "b">> -> <<"#", " ", "h", NL, "#", " ", "g">>
    [] loc = "sb" /\ name = <<"a", "_", "b">> -> <<>>
    [] loc = "sb" /\ name = <<"b", ".", "a">> ->
         <<"*", "*", "x", "*", "*", NL, " ", "#", "t">>
    [] loc = DIRECT /\ name = <<"a", " ", "b">> -> <<"-", " ", "http://", "u">>
    [] loc = DIRECT /\ name = <<"a", "_", "b">> ->
         <<"#", " ", "h", NL, "-", "-", "-", NL, NL, ATTRIBUTION>>
    [] OTHER -> <<"x", NL, ATTRIBUTION, NL>>

\* The sections.json of a collection: absent, the empty object, or an object
\* with or without an order.
Configs ==
  { [kind |-> "none", hasOrder |-> FALSE, order |-> <<>>,
     sections |-> <<>>, mainMenuName |-> ""],
    [kind |-> "empty", hasOrder |-> FALSE, order |-> <<>>,
     sections |-> <<>>, mainMenuName |-> ""],
    [kind |-> "dict", hasOrder |-> FALSE, order |-> <<>>,
     sections |-> [k \in {"sa"} |-> "Alpha"], mainMenuName |-> "Cartas"] }
  \cup
  { [kind |-> "dict", hasOrder |-> TRUE, order |-> o,
     sections |-> [k \in {"sa"} |-> "Alpha"], mainMenuName |-> "Cartas"] :
       o \in UNION { [1..n -> OrderKeys] : n \in 0..MaxOrder } }

\* The orders in which a directory listing may yield the section directories.
Listings(dirs) ==
  { l \in UNION { [1..n -> dirs] : n \in {Cardinality(dirs)} } :
      \A i, j \in 1..Len(l) : i # j => l[i] # l[j] }

\* A collection directory: its files, its section directories (empty ones
\* too), the order a listing yields them in, and its sections.json.
CollectionDirs ==
  { [files |-> fl, dirs |-> ds, iter |-> it, config |-> cf] :
      fl \in {f \in SUBSET ((SectionDirs \cup {DIRECT}) \X NameSet) :
                Cardinality(f) <= MaxFiles},
      ds \in SUBSET SectionDirs,
      it \in UNION {Listings(d) : d \in SUBSET SectionDirs},
      cf \in Configs }

\* The standalone .txt files of the source root (by stem) and whether an
\* earlier run left capsule/pages/index.gmi behind.
PageTrees ==
  { [pagesTxt |-> [n \in {"index", "notes"} |->
                     IF n = "index" THEN <<>> ELSE <<"-", " ", "https://", "u">>],
     stale |-> TRUE] }

Trees ==
  { [pagesTxt |-> p.pagesTxt, stale |-> p.stale, colls |-> [c \in CollNames |-> d]] :
      p \in PageTrees,
      d \in {x \in CollectionDirs :
               /\ \A f \in x.files : f[1] # DIRECT => f[1] \in x.dirs
               /\ x.iter \in Listings(x.dirs)} }

\* ------------------------------------------------------------ name order

\* The code point of a character of a file name.
Ord(ch) ==
  CASE ch = " " -> 32 [] ch = "-" -> 45 [] ch = "." -> 46
    [] ch = "_" -> 95 [] ch = "a" -> 97 [] ch = "b" -> 98 [] OTHER -> 120

\* a < b for strings.
NameLess(a, b) ==
  \E i \in 1..Len(b) :
     /\ \A j \in 1..(i - 1) : j <= Len(a) /\ a[j] = b[j]
     /\ i > Len(a) \/ Ord(a[i]) < Ord(b[i])

RECURSIVE sorted_by_name(_)
\* sorted(files, key=lambda x: x[1].name): a stable sort of (section, name).
sorted_by_name(files) ==
  IF Len(files) = 0 THEN <<>>
  ELSE LET rest == sorted_by_name(Tail(files))
           x == files[1]
           at == First({i \in 1..Len(rest) : ~NameLess(rest[i][2], x[2])})
       IN IF at = 0 THEN rest \o <<x>>
          ELSE SubSeq(rest, 1, at - 1) \o <<x>> \o From(rest, at)

RECURSIVE listing(_)
\* A directory listing of a set of entries, in some order.
listing(S) ==
  IF S = {} THEN <<>>
  ELSE LET x == CHOOSE y \in S : TRUE IN <<x>> \o listing(S \ {x})

\* Path.stem where Path.suffix is not empty, else Path.name.
stem_or_name(name) ==
  LET dots == {i \in 1..Len(name) : name[i] = "."}
      i == IF dots = {} THEN 0 ELSE CHOOSE d \in dots : \A e \in dots : e <= d
  IN IF 1 < i /\ i < Len(name) THEN SubSeq(name, 1, i - 1) ELSE name

\* The output name of a source file.
sanitized_name(name) == sanitize_filename(stem_or_name(name))

\* str.title() of a text of the letters a and b: a letter is upper-cased
\* where no letter precedes it.
IsLetter(ch) == ch \in {"a", "b", "A", "B"}
Upper(ch) == CASE ch = "a" -> "A" [] ch = "b" -> "B" [] OTHER -> ch
title(s) ==
  [i \in 1..Len(s) |->
     IF IsLetter(s[i]) /\ (i = 1 \/ ~IsLetter(s[i - 1])) THEN Upper(s[i]) ELSE s[i]]

\* name.replace('_', ' ').title()
display_name(name) ==
  title([i \in 1..Len(name) |-> IF name[i] = "_" THEN " " ELSE name[i]])

\* key.replace('_', ' ').title() of a collection or section key.
title_key(key) ==
  CASE key = "main" -> "Main" [] key = "sa" -> "Sa" [] key = "sb" -> "Sb"
    [] key = "c" -> "C" [] OTHER -> key

\* --------------------------------------------------------- build_collection

\* The glyphs of the navigation links: back arrow, up arrow, forward arrow.
BACK == "<-"
UP == "^"
FWD == "->"

\* "=> " and the start of a target under /collections/<collection>/.
link_to(c) == <<"=", ">", " ", "/collections/", c, "/">>

\* The files of a collection as (section, name), sorted by name.  With section
\* directories the files of each are listed directory by directory; without,
\* the files of the collection directory itself fall under 'main'.
get_collection_files(coll) ==
  LET has_sections == coll.dirs # {}
      of(loc) == listing({f[2] : f \in {g \in coll.files : g[1] = loc}})
      files ==
        IF has_sections
        THEN flatten([i \in 1..Len(coll.iter) |->
               [k \in 1..Len(of(coll.iter[i])) |-> <<coll.iter[i], of(coll.iter[i])[k]>>]])
        ELSE [k \in 1..Len(of(DIRECT)) |-> <<"main", of(DIRECT)[k]>>]
  IN sorted_by_name(files)

\* Where the files of a section lie.
file_loc(coll, section) == IF coll.dirs # {} THEN section ELSE DIRECT

RECURSIVE section_keys(_)
\* list(files_by_section.keys()): the sections in the order they first occur.
section_keys(collection_files) ==
  IF Len(collection_files) = 0 THEN <<>>
  ELSE LET init == section_keys(SubSeq(collection_files, 1, Len(collection_files) - 1))
           last == collection_files[Len(collection_files)][1]
       IN IF \E i \in 1..Len(init) : init[i] = last THEN init ELSE init \o <<last>>

\* files_by_section.get(section, []): the names of a section, sorted.
files_by_section(collection_files, section) ==
  LET own == sorted_by_name(SelectSeq(collection_files, LAMBDA f : f[1] = section))
  IN [i \in 1..Len(own) |-> own[i][2]]

\* The main menu name without a sections.json.
default_menu_name(c) == IF c = "mentalhealth" THEN "Mental Health" ELSE title_key(c)

get_default_sections(c, keys) ==
  [kind |-> "dict", hasOrder |-> TRUE, order |-> keys,
   sections |-> IF Len(keys) = 1 THEN [k \in {keys[1]} |-> title_key(keys[1])]
                ELSE [k \in {"main"} |-> "Main"],
   mainMenuName |-> default_menu_name(c)]

\* Load or create sections.json: an absent or empty one gives the default.
sections_data_of(coll, c, keys) ==
  IF coll.config.kind = "dict" THEN coll.config ELSE get_default_sections(c, keys)

\* The section order with the sections found in the tree, whatever the
\* sections.json declares.
sections_order_discovered(sections_data, keys) == keys

\* sections_data.get('order', list(files_by_section.keys()))
sections_order(sections_data, keys) ==
  IF sections_data.hasOrder THEN sections_data.order ELSE keys

\* sections_data.get('sections', {}).get(section, <title of the key>)
section_name(sections_data, section) ==
  IF section \in DOMAIN sections_data.sections
  THEN sections_data.sections[section] ELSE title_key(section)

\* The legacy labels of the cartas collection are translated.
translate_menu_name(main_menu_name) ==
  IF main_menu_name = "Cartas para Pablo" THEN "Letters for Pablo"
  ELSE IF main_menu_name = "Cartas" THEN "Letters"
  ELSE main_menu_name

doc_path(c, section, name) == <<"collections", c, section>> \o name \o <<".gmi">>
section_index_path(c, section) == <<"collections", c, section, "index", ".gmi">>
collection_index_path(c) == <<"collections", c, "index", ".gmi">>

\* write_gmi_file(path, content, add_footer) on the output tree f.
write_gmi_file(f, path, text, add_footer) == (path :> written(text, add_footer)) @@ f

\* The converted text of a document.
converted(text) ==
  IF detect_file_format(text) = "md" THEN convert_md_to_gmi(text)
  ELSE convert_txt_to_gmi(text)

RECURSIVE convert_files(_, _, _, _)
\* Convert each file: the loop over collection_files.
convert_files(f, coll, c, collection_files) ==
  IF Len(collection_files) = 0 THEN f
  ELSE LET section == collection_files[1][1]
           name == collection_files[1][2]
           text == read_file(file_loc(coll, section), name)
       IN convert_files(
            write_gmi_file(f, doc_path(c, section, sanitized_name(name)),
                           converted(text), TRUE),
            coll, c, Tail(collection_files))

\* The text of the collection index.
collection_index(c, sections_data, order) ==
  <<"#", " ", translate_menu_name(sections_data.mainMenuName), NL, NL>> \o
  flatten([i \in 1..Len(order) |->
     <<"#", "#", " ", section_name(sections_data, order[i]), NL, NL>> \o
     link_to(c) \o <<order[i], "/index.gmi", " ", "View", " ",
                     section_name(sections_data, order[i]), NL, NL>>])

\* The text of a section index.
section_index(c, sections_data, section, section_files) ==
  <<"#", " ", section_name(sections_data, section), NL, NL>> \o
  link_to(c) \o <<"index.gmi", " ", BACK, " ", "Back to collection", NL, NL>> \o
  <<"#", "#", " ", "Documents", NL, NL>> \o
  flatten([i \in 1..Len(section_files) |->
     link_to(c) \o <<section, "/">> \o sanitized_name(section_files[i]) \o
     <<".gmi", " ">> \o display_name(stem_or_name(section_files[i])) \o <<NL>>])

RECURSIVE write_section_indices(_, _, _, _, _)
\* Generate section indices: the loop over sections_order.
write_section_indices(f, c, sections_data, collection_files, order) ==
  IF Len(order) = 0 THEN f
  ELSE write_section_indices(
         write_gmi_file(f, section_index_path(c, order[1]),
           section_index(c, sections_data, order[1],
                         files_by_section(collection_files, order[1])), TRUE),
         c, sections_data, collection_files, Tail(order))

\* all_files_flat: (section, sanitized name) of the files of the sections of
\* sections_order, section after section.
all_files_flat(collection_files, order) ==
  flatten([i \in 1..Len(order) |->
     LET names == files_by_section(collection_files, order[i])
     IN [k \in 1..Len(names) |-> <<order[i], sanitized_name(names[k])>>]])

\* The link to the previous document of the sequence.
prev_link(c, flat, idx) ==
  link_to(c) \o <<flat[idx - 1][1], "/">> \o flat[idx - 1][2] \o
  <<".gmi", " ", BACK, " ">> \o display_name(flat[idx - 1][2])

\* The link to the index of the section of the document.
up_link(c, flat, idx) ==
  link_to(c) \o <<flat[idx][1], "/index.gmi", " ", UP, " ", "Section index">>

\* The link to the next document of the sequence.
next_link(c, flat, idx) ==
  link_to(c) \o <<flat[idx + 1][1], "/">> \o flat[idx + 1][2] \o
  <<".gmi", " ">> \o display_name(flat[idx + 1][2]) \o <<" ", FWD>>

\* nav_lines with the previous and next links kept within the section of the
\* document.
nav_lines_within_section(c, flat, idx) ==
  <<<<>>>> \o
  (IF idx > 1 /\ flat[idx - 1][1] = flat[idx][1]
   THEN <<prev_link(c, flat, idx)>> ELSE <<>>) \o
  <<up_link(c, flat, idx)>> \o
  (IF idx < Len(flat) /\ flat[idx + 1][1] = flat[idx][1]
   THEN <<next_link(c, flat, idx)>> ELSE <<>>) \o
  << <<>>, <<"-", "-", "-">>, <<>> >>

\* nav_lines of the document at idx of all_files_flat (idx counts from 1 here,
\* from 0 in the code).
nav_lines(c, flat, idx) ==
  <<<<>>>> \o
  (IF idx > 1 THEN <<prev_link(c, flat, idx)>> ELSE <<>>) \o
  <<up_link(c, flat, idx)>> \o
  (IF idx < Len(flat) THEN <<next_link(c, flat, idx)>> ELSE <<>>) \o
  << <<>>, <<"-", "-", "-">>, <<>> >>

\* A line the navigation pass takes for a heading.
starts_heading(line) == startswith(strip(line), <<"#">>)

RECURSIVE insert_after_every_heading(_, _, _)
\* The insertion loop with first_heading_found never set.
insert_after_every_heading(lines, nav, first_heading_found) ==
  IF Len(lines) = 0 THEN <<>>
  ELSE IF starts_heading(lines[1])
       THEN <<lines[1]>> \o nav \o insert_after_every_heading(Tail(lines), nav, FALSE)
  ELSE <<lines[1]>> \o insert_after_every_heading(Tail(lines), nav, FALSE)

RECURSIVE insert_after_first_heading(_, _, _)
\* Insert navigation after first heading: the loop over the lines.
insert_after_first_heading(lines, nav, first_heading_found) ==
  IF Len(lines) = 0 THEN <<>>
  ELSE IF ~first_heading_found /\ starts_heading(lines[1])
       THEN <<lines[1]>> \o nav \o insert_after_first_heading(Tail(lines), nav, TRUE)
  ELSE <<lines[1]>> \o insert_after_first_heading(Tail(lines), nav, first_heading_found)

\* updated_content: the page with the navigation lines inserted, at the
\* beginning if no heading was found.
updated_content(text, nav) ==
  LET lines == split(text)
      new_lines == insert_after_first_heading(lines, nav, FALSE)
  IN join(IF \E i \in 1..Len(lines) : starts_heading(lines[i])
          THEN new_lines ELSE nav \o new_lines)

RECURSIVE nav_pass(_, _, _, _, _)
\* Add previous/next navigation to files: the loop over all_files_flat from
\* idx on.  Gives the output tree and the visits made.
nav_pass(f, c, flat, idx, visits) ==
  IF idx > Len(flat) THEN [fs |-> f, visits |-> visits]
  ELSE LET path == doc_path(c, flat[idx][1], flat[idx][2])
       IN IF path \notin DOMAIN f THEN nav_pass(f, c, flat, idx + 1, visits)
          ELSE LET nav == nav_lines(c, flat, idx)
                   upd == updated_content(f[path], nav)
               IN nav_pass((path :> write_keep_footer(upd)) @@ f, c, flat, idx + 1,
                           Append(visits, [idx |-> idx, path |-> path, nav |-> nav,
                                           before |-> f[path], after |-> upd]))

\* build_collection on the output tree f: the new output tree, whether a
\* record is returned and the record, and what the navigation pass did.
build_collection(f, coll, c) ==
  LET collection_files == get_collection_files(coll)
      keys == section_keys(collection_files)
      sections_data == sections_data_of(coll, c, keys)
      order == sections_order(sections_data, keys)
      flat == all_files_flat(collection_files, order)
      f1 == convert_files(f, coll, c, collection_files)
      f2 == write_gmi_file(f1, collection_index_path(c),
                           collection_index(c, sections_data, order), TRUE)
      f3 == write_section_indices(f2, c, sections_data, collection_files, order)
      nav == nav_pass(f3, c, flat, 1, <<>>)
  IN IF Len(collection_files) = 0
     THEN [fs |-> f, returned |-> FALSE, data |-> sections_data,
           log |-> [coll |-> c, files |-> collection_files, order |-> order,
                    flat |-> <<>>, visits |-> <<>>]]
     ELSE [fs |-> nav.fs, returned |-> TRUE, data |-> sections_data,
           log |-> [coll |-> c, files |-> collection_files, order |-> order,
                    flat |-> flat, visits |-> nav.visits]]

\* -------------------------------------------------------------------- main

page_path(page_name) == <<"pages", page_name, ".gmi">>

\* sorted() of page stems and of collection names: their rank by name.
Rank(n) ==
  CASE n = "c" -> 1 [] n = "d" -> 2 [] n = "index" -> 3 [] n = "notes" -> 4
    [] OTHER -> 5

RECURSIVE sorted_names(_)
\* sorted(names) of a set of stems or collection names.
sorted_names(S) ==
  IF S = {} THEN <<>>
  ELSE LET x == CHOOSE y \in S : \A z \in S : Rank(y) <= Rank(z)
       IN <<x>> \o sorted_names(S \ {x})

\* The .txt files of the source root but index.txt, sorted.
get_all_txt_files(t) == sorted_names(DOMAIN t.pagesTxt \ {"index"})

RECURSIVE convert_pages(_, _, _, _)
\* The loop of build_pages over txt_files: the output tree and page_names.
convert_pages(f, t, txt_files, page_names) ==
  IF Len(txt_files) = 0 THEN [fs |-> f, page_names |-> page_names]
  ELSE LET text == strip(t.pagesTxt[txt_files[1]])
       IN IF text = <<>> THEN convert_pages(f, t, Tail(txt_files), page_names)
          ELSE convert_pages(
                 write_gmi_file(f, page_path(txt_files[1]), convert_txt_to_gmi(text), TRUE),
                 t, Tail(txt_files), Append(page_names, txt_files[1]))

\* build_pages without the removal of pages/index.gmi.
build_pages_keep_index(f, t) == convert_pages(f, t, get_all_txt_files(t), <<>>)

\* build_pages: convert the pages, then remove pages/index.gmi if it exists.
build_pages(f, t) ==
  LET done == convert_pages(f, t, get_all_txt_files(t), <<>>)
  IN [fs |-> [q \in DOMAIN done.fs \ {page_path("index")} |-> done.fs[q]],
      page_names |-> done.page_names]

\* discover_collections: the directories that hold a file in themselves or
\* in one of their subdirectories, sorted by name.
discover_collections(t) ==
  sorted_names({c \in DOMAIN t.colls : t.colls[c].files # {}})

\* str.upper() of the labels of the home page.
upper(label) ==
  CASE label = "notes" -> "NOTES" [] label = "Letters" -> "LETTERS"
    [] label = "C" -> "C" [] OTHER -> label

\* Where the home page sends the reader for a collection.
collection_link_path(c, sections_data) ==
  LET order == IF sections_data.hasOrder THEN sections_data.order ELSE <<>>
  IN IF Len(order) = 1 THEN <<"/collections/", c, "/", order[1], "/index.gmi">>
     ELSE <<"/collections/", c, "/index.gmi">>

\* The text of the home page.
index_content(page_names, data) ==
  LET listed == SelectSeq(page_names, LAMBDA q : q # "index")
      names == sorted_names(DOMAIN data)
  IN <<"<masthead>", NL>> \o
     (IF Len(page_names) > 0
      THEN <<"#", "#", "#", " ", "Pages", NL, NL>> \o
           flatten([i \in 1..Len(listed) |->
              <<"=", ">", " ", "/pages/", listed[i], ".gmi", " ", upper(listed[i]), NL>>])
           \o <<NL>>
      ELSE <<>>) \o
     (IF names # <<>>
      THEN <<"#", "#", "#", " ", "Collections", NL, NL>> \o
           flatten([i \in 1..Len(names) |->
              <<"=", ">", " ">> \o collection_link_path(names[i], data[names[i]]) \o
              <<" ", upper(translate_menu_name(data[names[i]].mainMenuName)), NL>>])
           \o <<NL>>
      ELSE <<>>) \o
     <<"<quick start>", NL>> \o
     (IF Len(listed) > 0
      THEN <<"=", ">", " ", "/pages/recomendati0n.gmi", " ", "Browse curated links", NL>>
      ELSE <<>>) \o
     flatten([i \in 1..Len(names) |->
        <<"=", ">", " ">> \o collection_link_path(names[i], data[names[i]]) \o
        <<" ", "Explore", " ", translate_menu_name(data[names[i]].mainMenuName), NL>>]) \o
     <<"<about>", NL>>

build_index(f, page_names, data) ==
  write_gmi_file(f, <<"index", ".gmi">>, index_content(page_names, data), TRUE)

\* The output tree before the run.
InitialOutput(t) == IF t.stale THEN (page_path("index") :> <<>>) ELSE <<>>

Init ==
  /\ pc = "start"
  /\ tree \in Trees
  /\ fs = InitialOutput(tree)
  /\ pages = <<>> /\ collections = <<>> /\ collections_data = <<>>
  /\ navLog = <<>>
  /\ content = <<>> /\ fmt = "" /\ gmi = <<>> /\ page = <<>> /\ page2 = <<>>

\* main: pages = build_pages()
BuildPages ==
  /\ pc = "start"
  /\ fs' = build_pages(fs, tree).fs
  /\ pages' = build_pages(fs, tree).page_names
  /\ pc' = "pages"
  /\ UNCHANGED <<tree, collections, collections_data, navLog>>
  /\ UNCHANGED textVars

\* main: collections = discover_collections()
Discover ==
  /\ pc = "pages"
  /\ collections' = discover_collections(tree)
  /\ pc' = "collections"
  /\ UNCHANGED <<tree, fs, pages, collections_data, navLog>>
  /\ UNCHANGED textVars

\* main: one turn of the loop over collections.
BuildCollection ==
  /\ pc = "collections"
  /\ collections # <<>>
  /\ LET c == Head(collections)
         built == build_collection(fs, tree.colls[c], c)
     IN /\ fs' = built.fs
        /\ collections_data' =
             IF built.returned THEN (c :> built.data) @@ collections_data
             ELSE collections_data
        /\ navLog' = Append(navLog, built.log)
  /\ collections' = Tail(collections)
  /\ UNCHANGED <<pc, tree, pages>>
  /\ UNCHANGED textVars

\* main: build_index(pages, collections_data)
BuildIndex ==
  /\ pc = "collections"
  /\ collections = <<>>
  /\ fs' = build_index(fs, pages, collections_data)
  /\ pc' = "done"
  /\ UNCHANGED <<tree, pages, collections, collections_data, navLog>>
  /\ UNCHANGED textVars

Next ==
  \/ BuildPages
  \/ Discover
  \/ BuildCollection
  \/ BuildIndex

Spec == Init /\ [][Next]_vars

\* ----------------------------------------------------------------- claims

\* The text a converter was given in the single-document run.
ConverterInput == IF pc = "page" THEN strip(content) ELSE content

\* The document was converted by convert_md_to_gmi / convert_txt_to_gmi.
ConvertedByMd == pc = "document" /\ fmt = "md"
ConvertedByTxt == pc = "page" \/ (pc = "document" /\ fmt = "txt")

\* The number of occurrences of p in s.
Count(s, p) ==
  Cardinality({i \in 1..(Len(s) - Len(p) + 1) : SubSeq(s, i, i + Len(p) - 1) = p})

\* The lines of a document that are fence markers, and those that lie in a
\* fenced block: after an odd number of markers, or markers themselves.
FenceMarkers(lines) ==
  {i \in 1..Len(lines) : startswith(strip(lines[i]), <<FENCE>>)}
Fenced(lines) ==
  {i \in 1..Len(lines) :
     \/ i \in FenceMarkers(lines)
     \/ Cardinality({j \in FenceMarkers(lines) : j < i}) % 2 = 1}
ProperlyPaired(lines) == Cardinality(FenceMarkers(lines)) % 2 = 0

\* The end of the bracket-paren pattern [T](U), T and U not empty, that starts
\* at i of s; 0 if none starts there.
PatternEnd(s, i) ==
  First({k \in (i + 5)..Len(s) :
     \E j \in (i + 2)..(k - 3) :
        /\ s[i] = "[" /\ s[j] = "]" /\ s[j + 1] = "(" /\ s[k] = ")"
        /\ \A x \in (i + 1)..(j - 1) : s[x] # "]"
        /\ \A x \in (j + 2)..(k - 1) : s[x] # ")"})

RECURSIVE PatternCount(_, _)
\* The number of patterns of s from i on, counted left to right, a pattern
\* starting only after the end of the one before.
PatternCount(s, i) ==
  IF i > Len(s) THEN 0
  ELSE IF PatternEnd(s, i) # 0 THEN 1 + PatternCount(s, PatternEnd(s, i) + 1)
  ELSE PatternCount(s, i + 1)

\* A line the rich converter takes for a heading or for a list item.
HeadingLine(line) ==
  \E n \in 1..3 :
     /\ Len(strip(line)) > n
     /\ \A x \in 1..n : strip(line)[x] = "#"
     /\ strip(line)[n + 1] = " "
ListLine(line) ==
  Len(strip(line)) >= 2 /\ strip(line)[1] = "-" /\ strip(line)[2] = " "

ARROW == <<"=", ">", " ">>

\* C2 as stated: footer injection is idempotent: write_gmi_file with
\* add_footer=True applied to its own output yields the content it yielded
\* the first time.
C2_WriteFooterIdempotent == pc = "written_again" => page2 = page

\* C2 as amended: the write of build_collection's navigation pass, which adds
\* the footer only when the footer block does not occur in the content, leaves
\* its own output and the output of write_gmi_file(add_footer=True) unchanged.
C2_KeepFooterIdempotent ==
  /\ pc = "kept" => page2 = page
  /\ pc = "kept_twice" => page2 = page

\* C2 witness: a text without footer got one from the guarded write, and the
\* second guarded write left it alone.
C2_Witness ==
  /\ pc = "kept_twice"
  /\ ~contains(gmi, <<ATTRIBUTION>>)
  /\ Count(page, <<ATTRIBUTION>>) = 1
  /\ page2 = page

\* The fenced lines of the converter's input appear unchanged in its output.
FencedLinesVerbatim ==
  LET lin == split(ConverterInput)
      lout == split(gmi)
  IN ProperlyPaired(lin) =>
       /\ Len(lout) = Len(lin)
       /\ \A i \in Fenced(lin) : lout[i] = lin[i]

\* C3 as stated: in every document with properly paired fence markers, the
\* lines between an opening and its closing fence and the fence lines appear
\* in the output identical to the input, whichever converter the pipeline
\* applies (collection document or standalone page).
C3_FencedVerbatimAnyConverter ==
  pc \in {"document", "page"} => FencedLinesVerbatim

\* C3 as amended: the same, for collection documents (converted by the
\* converter detect_file_format selects); standalone pages go through
\* convert_txt_to_gmi, which keeps no fence state.
C3_FencedVerbatimDocuments ==
  pc = "document" => FencedLinesVerbatim

\* C3 witness: a collection document with a fenced block holding a line the
\* rich rules would have rewritten outside the fence.
C3_Witness ==
  /\ pc = "document"
  /\ LET lin == split(content)
     IN /\ ProperlyPaired(lin)
        /\ \E i \in Fenced(lin) \ FenceMarkers(lin) :
              /\ md_line(lin[i]) # lin[i]
              /\ split(gmi)[i] = lin[i]

\* C4 as stated: the rich converter rewrites every bracket-paren pattern on a
\* line outside a fenced block to "=> U T": the output holds as many rewritten
\* links as the input holds patterns outside fences, heading and list lines
\* included.
C4_EveryLinkRewritten ==
  ConvertedByMd =>
    LET lin == split(content)
        lout == split(gmi)
    IN /\ Len(lout) = Len(lin)
       /\ \A i \in (1..Len(lin)) \ Fenced(lin) :
             Count(lout[i], ARROW) = PatternCount(lin[i], 1)

\* C4 as amended: outside fenced blocks, every pattern of a line that is
\* neither a heading line nor a list line is rewritten; the patterns of a
\* heading line or a list line are left as they are.
C4_LinksRewrittenOnLinkLines ==
  ConvertedByMd =>
    LET lin == split(content)
        lout == split(gmi)
    IN /\ Len(lout) = Len(lin)
       /\ \A i \in (1..Len(lin)) \ Fenced(lin) :
             IF HeadingLine(lin[i]) \/ ListLine(lin[i])
             THEN Count(lout[i], ARROW) = 0
             ELSE Count(lout[i], ARROW) = PatternCount(lin[i], 1)

\* C4 witness: a rich document with a link on a heading line and two links on
\* a plain line, outside any fence.
C4_Witness ==
  /\ ConvertedByMd
  /\ LET lin == split(content)
         lout == split(gmi)
     IN /\ \E i \in (1..Len(lin)) \ Fenced(lin) :
             /\ HeadingLine(lin[i]) /\ PatternCount(lin[i], 1) = 1
             /\ Count(lout[i], ARROW) = 0
        /\ \E i \in (1..Len(lin)) \ Fenced(lin) :
             /\ ~HeadingLine(lin[i]) /\ ~ListLine(lin[i])
             /\ PatternCount(lin[i], 1) = 2
             /\ Count(lout[i], ARROW) = 2

\* C5: convert_txt_to_gmi emits a heading line trimmed, a "- http(s)://" line
\* as "=> " and its target and nothing else, a blank line empty, every other
\* line unchanged, and as many lines as it was given.
C5_PlainRules ==
  ConvertedByTxt =>
    LET lin == split(ConverterInput)
        lout == split(gmi)
    IN /\ Len(lout) = Len(lin)
       /\ \A i \in 1..Len(lin) :
            LET t == strip(lin[i])
            IN IF startswith(t, <<"#", " ">>) THEN lout[i] = t
               ELSE IF \E scheme \in {"http://", "https://"} :
                          startswith(t, <<"-", " ", scheme>>)
                    THEN lout[i] = ARROW \o From(t, 3)
               ELSE IF t = <<>> THEN lout[i] = <<>>
               ELSE lout[i] = lin[i]

\* C5 witness: a plain document with a URL line with blanks around it, an
\* indented heading and a line of blanks.
C5_Witness ==
  /\ pc = "document" /\ fmt = "txt"
  /\ LET lin == split(content)
     IN /\ \E i \in 1..Len(lin) :
             /\ startswith(strip(lin[i]), <<"-", " ", "http://">>)
             /\ strip(lin[i]) # lin[i]
             /\ split(gmi)[i] = <<"=", ">", " ", "http://", "u">>
        /\ \E i \in 1..Len(lin) :
             startswith(strip(lin[i]), <<"#", " ">>) /\ strip(lin[i]) # lin[i]
        /\ \E i \in 1..Len(lin) : lin[i] = <<" ">>

\* The four indicators of rich text, as the claim words them.
LinkIndicator(s) ==
  \E i \in 1..Len(s) : \E j \in (i + 2)..Len(s) : \E k \in (j + 3)..Len(s) :
     /\ s[i] = "[" /\ s[j] = "]" /\ s[j + 1] = "(" /\ s[k] = ")"
     /\ \A x \in (i + 1)..(j - 1) : s[x] # "]"
     /\ \A x \in (j + 2)..(k - 1) : s[x] # ")"
HeadingIndicator(s) ==
  \E p \in 1..Len(s) : \E n \in 1..6 :
     /\ p = 1 \/ s[p - 1] = NL
     /\ p + n <= Len(s)
     /\ \A x \in p..(p + n - 1) : s[x] = "#"
     /\ IsSpace(s[p + n])
BoldIndicator(s) ==
  \E i \in 1..Len(s) : \E j \in (i + 3)..(Len(s) - 1) :
     /\ s[i] = "*" /\ s[i + 1] = "*" /\ s[j] = "*" /\ s[j + 1] = "*"
     /\ \A x \in (i + 2)..(j - 1) : s[x] # "*"
FenceIndicator(s) == \E i \in 1..Len(s) : s[i] = FENCE

\* C6: detect_file_format answers 'md' exactly when one of the four
\* indicators occurs in the content, and 'txt' otherwise.
C6_DetectIffAnyIndicator ==
  pc # "read" =>
    /\ fmt \in {"md", "txt"}
    /\ fmt = "md" <=>
         \/ LinkIndicator(content) \/ HeadingIndicator(content)
         \/ BoldIndicator(content) \/ FenceIndicator(content)

\* C6 witness: a document found rich by its bold span alone.
C6_Witness ==
  /\ pc = "detected" /\ fmt = "md"
  /\ BoldIndicator(content)
  /\ ~LinkIndicator(content) /\ ~HeadingIndicator(content) /\ ~FenceIndicator(content)

\* ------------------------------------------------ claims on build_collection

\* The collections main has built so far, by their place in navLog, and those
\* of them build_collection returned a record for.
Built == 1..Len(navLog)
Returned == {n \in Built : navLog[n].coll \in DOMAIN collections_data}

\* The collection directory an entry of navLog was built from.
SourceOf(n) == tree.colls[navLog[n].coll]

\* The sections found in a collection directory and the file names of each.
SourceSections(coll) ==
  IF coll.dirs = {} THEN {"main"} ELSE {f[1] : f \in coll.files} \ {DIRECT}
SourceNames(coll, section) ==
  IF coll.dirs = {}
  THEN IF section = "main" THEN {f[2] : f \in {g \in coll.files : g[1] = DIRECT}} ELSE {}
  ELSE {f[2] : f \in {g \in coll.files : g[1] = section}}

\* The names of a set in filename sort order.
InNameOrder(S) ==
  CHOOSE q \in [1..Cardinality(S) -> S] :
     \A i, j \in 1..Cardinality(S) : i < j => NameLess(q[i], q[j])

\* The documents of a section as the navigation sequence names them.
SectionDocuments(coll, section) ==
  LET names == InNameOrder(SourceNames(coll, section))
  IN [k \in 1..Len(names) |-> <<section, sanitize_filename(stem_or_name(names[k]))>>]

\* The target of a link to a document and to the index of its section.
DocumentTarget(c, doc) == link_to(c) \o <<doc[1], "/">> \o doc[2] \o <<".gmi", " ">>
SectionIndexTarget(c, doc) == link_to(c) \o <<doc[1], "/index.gmi", " ">>

\* The lines of a navigation block that hold a glyph.
LinesWith(nav, glyph) == {i \in 1..Len(nav) : contains(nav[i], <<glyph>>)}

\* C1: the navigation sequence is the concatenation of the document lists of
\* the sections in section order, each list in filename sort order; the block
\* inserted for the document at place k holds a previous link exactly when k is
\* not the first, to the document before it, a next link exactly when k is not
\* the last, to the document after it, and one up link to the index of its own
\* section, across section boundaries.
C1_NavigationIsLinkedSequence ==
  \A n \in Returned :
    LET e == navLog[n]
        c == e.coll
    IN /\ e.flat = flatten([i \in 1..Len(e.order) |->
                              SectionDocuments(SourceOf(n), e.order[i])])
       /\ Len(e.visits) = Len(e.flat)
       /\ \A k \in 1..Len(e.visits) :
            LET v == e.visits[k]
                back == LinesWith(v.nav, BACK)
                up == LinesWith(v.nav, UP)
                fwd == LinesWith(v.nav, FWD)
            IN /\ v.path = doc_path(c, e.flat[k][1], e.flat[k][2])
               /\ contains(split(v.after), v.nav)
               /\ contains(split(fs[v.path]), v.nav)
               /\ Cardinality(back) = (IF k > 1 THEN 1 ELSE 0)
               /\ \A i \in back : startswith(v.nav[i], DocumentTarget(c, e.flat[k - 1]))
               /\ Cardinality(fwd) = (IF k < Len(e.flat) THEN 1 ELSE 0)
               /\ \A i \in fwd : startswith(v.nav[i], DocumentTarget(c, e.flat[k + 1]))
               /\ Cardinality(up) = 1
               /\ \A i \in up : startswith(v.nav[i], SectionIndexTarget(c, e.flat[k]))

\* C1 witness: sections [sa, sb] with two documents and one; the second
\* document links back within sa and forward into sb.
C1_Witness ==
  \E n \in Returned :
    LET e == navLog[n]
    IN /\ e.order = <<"sa", "sb">>
       /\ Len(e.flat) = 3 /\ Len(e.visits) = 3
       /\ e.flat[1][1] = "sa" /\ e.flat[2][1] = "sa" /\ e.flat[3][1] = "sb"
       /\ e.flat[1] # e.flat[2]
       /\ LinesWith(e.visits[1].nav, BACK) = {}
       /\ LinesWith(e.visits[3].nav, FWD) = {}
       /\ \E i \in LinesWith(e.visits[2].nav, FWD) :
             startswith(e.visits[2].nav[i], DocumentTarget(e.coll, e.flat[3]))

\* The number of navigation blocks in a page: each holds one up link.
Blocks(text) == Count(text, <<UP>>)

\* The page with the block placed once: after the first line whose trimmed
\* form starts with '#', or before the first line if there is none.
PlacedOnce(text, nav) ==
  LET lines == split(text)
      h == First({i \in 1..Len(lines) : startswith(strip(lines[i]), <<"#">>)})
  IN join(SubSeq(lines, 1, h) \o nav \o SubSeq(lines, h + 1, Len(lines)))

\* The output paths of the source documents of a built collection.
DocumentPaths(n) ==
  {doc_path(navLog[n].coll, navLog[n].files[i][1], sanitized_name(navLog[n].files[i][2])) :
     i \in 1..Len(navLog[n].files)}

\* C7 as stated: every collection document gets the navigation block exactly
\* once in its final page, right after the first heading line of the converted
\* body, or at the very start if the body has none.
C7_OneBlockPerDocument ==
  \A n \in Returned :
    \A p \in DocumentPaths(n) :
      LET e == navLog[n]
          at == {k \in 1..Len(e.visits) : e.visits[k].path = p}
      IN /\ Cardinality(at) = 1
         /\ Blocks(fs[p]) = 1
         /\ \A k \in at : fs[p] = PlacedOnce(e.visits[k].before, e.visits[k].nav)

\* C7 as amended: every entry of the navigation sequence gets its block
\* inserted once into the page read: after the first heading line, or at the
\* very start if there is none, never after a later heading, the other lines
\* in their order.  A page holds as many blocks as the sequence has entries
\* for its path: none for a document of a section outside the section order.
C7_OneBlockPerVisit ==
  \A n \in Returned :
    LET e == navLog[n]
    IN /\ \A k \in 1..Len(e.visits) :
            /\ e.visits[k].after = PlacedOnce(e.visits[k].before, e.visits[k].nav)
            /\ Blocks(e.visits[k].after) = Blocks(e.visits[k].before) + 1
       /\ \A p \in DocumentPaths(n) :
            Blocks(fs[p]) =
              Cardinality({k \in 1..Len(e.flat) :
                             doc_path(e.coll, e.flat[k][1], e.flat[k][2]) = p})

\* C7 witness: a page whose first heading is not its first line and that has
\* a later heading got one block, after the first heading.
C7_Witness ==
  \E n \in Returned : \E k \in 1..Len(navLog[n].visits) :
    LET v == navLog[n].visits[k]
        lines == split(v.before)
    IN /\ Cardinality({i \in 1..Len(lines) : startswith(strip(lines[i]), <<"#">>)}) >= 2
       /\ ~startswith(strip(lines[1]), <<"#">>)
       /\ Blocks(fs[v.path]) = 1
       /\ fs[v.path] = PlacedOnce(v.before, v.nav)

\* The collection has a sections.json that declares an order.
DeclaresOrder(coll) == coll.config.kind = "dict" /\ coll.config.hasOrder

\* The sections found in the tree that the declared order leaves out.
Undeclared(coll) ==
  {s \in SourceSections(coll) :
     /\ SourceNames(coll, s) # {}
     /\ \A i \in 1..Len(coll.config.order) : coll.config.order[i] # s}

\* The link lines of a text.
LinkLines(text) == SelectSeq(split(text), LAMBDA line : startswith(line, ARROW))

\* The declared order is the section order of the collection index, of the
\* section indices and of navigation, and a section it leaves out has no
\* section index, no entry in the collection index and none in navigation.
DeclaredOrderRules(n) ==
  LET e == navLog[n]
      c == e.coll
      order == SourceOf(n).config.order
      links == LinkLines(fs[collection_index_path(c)])
  IN /\ e.order = order
     /\ Len(links) = Len(order)
     /\ \A i \in 1..Len(order) :
          /\ startswith(links[i], link_to(c) \o <<order[i], "/index.gmi">>)
          /\ section_index_path(c, order[i]) \in DOMAIN fs
     /\ \A k \in 1..Len(e.flat) : \E i \in 1..Len(order) : e.flat[k][1] = order[i]
     /\ \A s \in Undeclared(SourceOf(n)) : section_index_path(c, s) \notin DOMAIN fs

\* C8 as stated: with a sections.json the declared order rules, and a section
\* it leaves out is dropped from output: no document page, no section index,
\* no collection-index entry, no navigation entry.
C8_UndeclaredSectionsDropped ==
  \A n \in Returned :
    DeclaresOrder(SourceOf(n)) =>
      /\ DeclaredOrderRules(n)
      /\ \A s \in Undeclared(SourceOf(n)) : \A name \in SourceNames(SourceOf(n), s) :
           doc_path(navLog[n].coll, s, sanitized_name(name)) \notin DOMAIN fs

\* C8 as amended: the same, but the documents of a section the order leaves
\* out are still converted and written, with the footer and without a
\* navigation block.
C8_UndeclaredSectionsUnlinked ==
  \A n \in Returned :
    DeclaresOrder(SourceOf(n)) =>
      /\ DeclaredOrderRules(n)
      /\ \A s \in Undeclared(SourceOf(n)) : \A name \in SourceNames(SourceOf(n), s) :
           LET p == doc_path(navLog[n].coll, s, sanitized_name(name))
           IN /\ p \in DOMAIN fs
              /\ contains(fs[p], <<ATTRIBUTION>>)
              /\ Blocks(fs[p]) = 0

\* C8 witness: the order declares sb alone while sa holds a document too; the
\* documents of sb are in navigation and the page of sa's document is written.
C8_Witness ==
  \E n \in Returned :
    /\ DeclaresOrder(SourceOf(n))
    /\ SourceOf(n).config.order = <<"sb">>
    /\ SourceNames(SourceOf(n), "sb") # {}
    /\ "sa" \in Undeclared(SourceOf(n))
    /\ navLog[n].flat # <<>>
    /\ \E name \in SourceNames(SourceOf(n), "sa") :
         doc_path(navLog[n].coll, "sa", sanitized_name(name)) \in DOMAIN fs

\* C9: a collection that reaches output (main stores its record, build_index
\* lists it) has a section in its section order and a document in its
\* navigation sequence.
C9_PublishedCollectionNotEmpty ==
  \A n \in Returned : Len(navLog[n].order) >= 1 /\ Len(navLog[n].flat) >= 1

\* C10: no two source documents of one section are written to the same
\* output path.
C10_OutputNamesUnique ==
  \A n \in Built :
    \A i, j \in 1..Len(navLog[n].files) :
      LET a == navLog[n].files[i]
          b == navLog[n].files[j]
      IN (i # j /\ a[1] = b[1]) => sanitized_name(a[2]) # sanitized_name(b[2])

\* ------------------------------------------------- claims on the order

\* The collection directory as another directory listing yields it: the same
\* files, section directories and sections.json, the section directories in
\* any of their orders.
Relisted(coll) == {[coll EXCEPT !.iter = it] : it \in Listings(coll.dirs)}

\* The section order build_collection uses for a collection directory.
SectionOrderOf(coll, c) ==
  LET keys == section_keys(get_collection_files(coll))
  IN sections_order(sections_data_of(coll, c, keys), keys)

\* C11: two builds of one source tree have the same section order and the
\* same document order within each section, in whatever order the directory
\* listing yields the entries, two sections holding a file of the same name
\* included.
C11_OrderIndependentOfListing ==
  \A n \in Built :
    \A other \in Relisted(SourceOf(n)) :
      /\ navLog[n].order = SectionOrderOf(SourceOf(n), navLog[n].coll)
      /\ SectionOrderOf(other, navLog[n].coll) = navLog[n].order
      /\ \A s \in SourceSections(SourceOf(n)) :
           files_by_section(get_collection_files(other), s) =
             files_by_section(navLog[n].files, s)

\* ------------------------------------------------- claims on build_pages

\* The stems of the standalone .txt files of the source root and the texts
\* they hold: nothing, white space alone, a heading with blanks around it,
\* a URL line.
PageStems == {"index", "notes", "todo"}
PageTexts ==
  { <<>>,
    <<" ", NL>>,
    <<" ", "#", " ", "h", NL>>,
    <<"-", " ", "https://", "u">> }

\* What an earlier run left in capsule/pages.
OLD == <<"o", "l", "d">>
PriorPages ==
  UNION { [{page_path(n) : n \in S} -> {OLD}] : S \in SUBSET PageStems }

\* The source roots of the run of build_pages: some standalone files, no
\* collection, and the output tree as the run finds it.
PagesTrees ==
  { [pagesTxt |-> txt, stale |-> page_path("index") \in DOMAIN prior,
     colls |-> <<>>, prior |-> prior] :
      txt \in UNION { [S -> PageTexts] : S \in SUBSET PageStems },
      prior \in PriorPages }

InitPages ==
  /\ pc = "start"
  /\ tree \in PagesTrees
  /\ fs = tree.prior
  /\ pages = <<>> /\ collections = <<>> /\ collections_data = <<>>
  /\ navLog = <<>>
  /\ content = <<>> /\ fmt = "" /\ gmi = <<>> /\ page = <<>> /\ page2 = <<>>

\* build_pages alone, on any source root and any earlier output.
SpecPages == InitPages /\ [][BuildPages]_vars

\* How often a stem occurs in the returned page list.
Listed(n) == Cardinality({i \in 1..Len(pages) : pages[i] = n})

\* The text ends with the footer block.
EndsWithFooter(text) ==
  /\ Len(text) >= Len(get_footer)
  /\ SubSeq(text, Len(text) - Len(get_footer) + 1, Len(text)) = get_footer

\* The path holds after the run what it held before it.
Untouched(path) ==
  /\ path \in DOMAIN fs <=> path \in DOMAIN tree.prior
  /\ path \in DOMAIN fs => fs[path] = tree.prior[path]

DefaultLine(line) ==
  /\ ~HeadingLine(line) /\ ~ListLine(line)
  /\ ~contains(line, <<"]", "(">>)
  /\ strip(line) # <<>>

\* The line with its bold and italic markers stripped.
Unmarked(line) == sub_italic(sub_bold(line, 1), 1)

\* A horizontal-rule marker of three or more hyphens.
RuleMarker(t) == Len(t) >= 3 /\ \A i \in 1..Len(t) : t[i] = "-"

\* The lines outside fences that reach the default text rule.
DefaultLines(lines) ==
  {i \in (1..Len(lines)) \ Fenced(lines) : DefaultLine(lines[i])}

\* C13 as stated: a line that reaches the default text rule is replaced by a
\* blank line whenever its trimmed result after bold/italic stripping is three
\* or more hyphens; every other such line is emitted with only its bold and
\* italic markers stripped.
C13_AnyRuleMarkerBlanked ==
  ConvertedByMd =>
    LET lin == split(content)
        lout == split(gmi)
    IN /\ Len(lout) = Len(lin)
       /\ \A i \in DefaultLines(lin) :
            IF RuleMarker(strip(Unmarked(lin[i]))) THEN lout[i] = <<>>
            ELSE lout[i] = Unmarked(lin[i])

\* C13 as amended: such a line is replaced by a blank line exactly when its
\* trimmed form is '---', three hyphens and no more; every other such line,
\* one of four or more hyphens included, is emitted with only its bold and
\* italic markers stripped.
C13_ThreeHyphensBlanked ==
  ConvertedByMd =>
    LET lin == split(content)
        lout == split(gmi)
    IN /\ Len(lout) = Len(lin)
       /\ \A i \in DefaultLines(lin) :
            IF strip(lin[i]) = <<"-", "-", "-">> THEN lout[i] = <<>>
            ELSE lout[i] = Unmarked(lin[i])

\* C13 witness: a rich document with a line of three hyphens, emitted blank,
\* a line of four, emitted as it is, and a bold line, emitted unmarked.
C13_Witness ==
  /\ ConvertedByMd
  /\ LET lin == split(content)
         lout == split(gmi)
     IN /\ \E i \in DefaultLines(lin) :
             lin[i] = <<"-", "-", "-">> /\ lout[i] = <<>>
        /\ \E i \in DefaultLines(lin) :
             lin[i] = <<"-", "-", "-", "-">> /\ lout[i] = lin[i]
        /\ \E i \in DefaultLines(lin) :
             lin[i] = <<"*", "*", "x", "*", "*">> /\ lout[i] = <<"x">>

\* ------------------------------------------------- claims on the footer

\* The source documents of a built collection written to an output path, by
\* their place in collection_files, and the text of each.
WrittenTo(n, p) ==
  {i \in 1..Len(navLog[n].files) :
     doc_path(navLog[n].coll, navLog[n].files[i][1],
              sanitized_name(navLog[n].files[i][2])) = p}
SourceText(n, i) ==
  read_file(file_loc(SourceOf(n), navLog[n].files[i][1]), navLog[n].files[i][2])

\* The converted body the page at a path was last written from.
BodyOf(n, p) ==
  converted(SourceText(n, CHOOSE i \in WrittenTo(n, p) :
                              \A j \in WrittenTo(n, p) : j <= i))

\* The page holds the attribution once, in the footer block that ends it,
\* after the body and the navigation blocks.
AttributedOnce(text) ==
  /\ Count(text, <<ATTRIBUTION>>) = 1
  /\ EndsWithFooter(text)
  /\ Blocks(text) >= 1

====
